---- MODULE Spec2Model ----
(***************************************************************************)
(* Model of the HR agent's remote tool-invocation bridge:                  *)
(*   app/mcp_client.py  MCPClient        (JSON-RPC client)                 *)
(*   app/tools.py       MCPToolFactory   (bindings over the client)        *)
(*   app/agent.py       HRAgent          (one turn of the orchestrator)    *)
(*   app/auth.py        TokenContext     (credential context)              *)
(*   app/main.py        chat             (endpoint and hop recorder)       *)
(*                                                                         *)
(* A Python string is a sequence of chunks (<<"Bearer ", "tA">> is the     *)
(* string "Bearer tA", <<>> is the empty string); None is the value None.  *)
(* Every coroutine runs on one asyncio event loop: the code between two    *)
(* awaits is one atomic step.                                              *)
(***************************************************************************)
EXTENDS Integers, Sequences, FiniteSets, TLC

VARIABLES
    request_id,        \* MCPClient.request_id
    last_mcp_token,    \* MCPClient.last_mcp_token
    sent,              \* the JSON-RPC requests handed to client.post, in order
    calls,             \* the client operations of this MCPClient, by coroutine
    history,           \* the tools/call replies in the order call_tool resumed on them
    resumed,           \* the operation that resumed last: its reply and how it ended
    token_context,     \* the TokenContext of the inbound request
    pc,                \* position of the /chat request
    tools,             \* the bindings handed to the AgentExecutor
    invoked,           \* number of binding invocations the orchestrator made
    chat_result,       \* what the /chat endpoint hands back
    llm_headers,       \* default_headers of the ChatOpenAI of this request
    headers,           \* MCPToolFactory.headers; the dict get_headers returned last
    requests,          \* several /chat requests in one process, by caller
    clients            \* the MCPClient objects of the process, by identity

vars == <<request_id, last_mcp_token, sent, calls, history, resumed, token_context,
          pc, tools, invoked, chat_result, llm_headers, headers, requests, clients>>

\* what one request's own steps leave alone
server_vars == <<requests, clients>>

\* what the steps of the process serving several requests leave alone
turn_vars == <<request_id, last_mcp_token, sent, calls, history, resumed, token_context,
               pc, tools, invoked, chat_result, llm_headers, headers>>

(***************************************************************************)
(* Bounds of the model.                                                    *)
(***************************************************************************)
MaxOps == 2        \* operations one client is driven through (client specification)
MaxCalls == 2      \* binding invocations of one chat turn
MaxTools == 2      \* descriptors in one tools/list result

\* one coroutine per client operation; a chat turn runs list_tools, then its calls
Slots == 1 .. (IF MaxOps > MaxCalls + 1 THEN MaxOps ELSE MaxCalls + 1)

(***************************************************************************)
(* Python values.                                                          *)
(***************************************************************************)
None == <<"<None>">>

Truthy(v) == v # None /\ v # <<>>

\* token.startswith('Bearer ') / token[7:], as main.py does it twice
StripBearer(token) ==
    IF Len(token) > 0 /\ token[1] = "Bearer " THEN Tail(token)
    ELSE IF Len(token) > 0 /\ token[1] = "bearer " THEN Tail(token)
    ELSE token


(***************************************************************************)
(* The remote side: what client.post can come back with.                   *)
(*   kind      connect_error | timeout   no HTTP response at all           *)
(*             http_error                a response with a non-2xx status  *)
(*             bad_json                  2xx, body is not JSON             *)
(*             json                      2xx, body is a JSON object        *)
(*   hdr       the X-MCP-Token response header (None: absent)              *)
(*   has_error the body has an "error" member; message: its "message"      *)
(*             member (None: the member is missing)                        *)
(*   result    shape of the "result" member                                *)
(*   tools     the "tools" array of a tools/list result                    *)
(***************************************************************************)
HeaderValues == {None, <<"tA">>, <<"Bearer ", "tB">>}

ToolNames == {"get_employee", "get_salary"}

Descriptors == {"get_employee", "unknown_tool_x"}

\* a catalogue: up to n descriptors, each name once (the name is the descriptor's key)
Catalogues(S, n) ==
    {q \in UNION {[1 .. m -> S] : m \in 0 .. n} :
        \A j, k \in 1 .. Len(q) : j # k => q[j] # q[k]}

NoBody == [has_error |-> FALSE, message |-> None, result |-> "absent", tools |-> <<>>]

ErrorBodies ==
    {[NoBody EXCEPT !.has_error = TRUE, !.message = m] : m \in {None, <<"denied">>}}

CallBodies ==
    ErrorBodies \cup {[NoBody EXCEPT !.result = r] : r \in {"empty_content", "text"}}

ListBodies ==
    ErrorBodies \cup {[NoBody EXCEPT !.result = "no_tools"]} \cup
    {[NoBody EXCEPT !.result = "tools", !.tools = t] : t \in Catalogues(Descriptors, MaxTools)}

InitBodies == ErrorBodies \cup {[NoBody EXCEPT !.result = "capabilities"]}

Bodies(method) ==
    CASE method = "tools/call" -> CallBodies
      [] method = "tools/list" -> ListBodies
      [] OTHER -> InitBodies

\* a reply that never reaches response.headers.get: one header value stands for all
Replies(method) ==
    {[kind |-> k, hdr |-> None, body |-> NoBody] : k \in {"connect_error", "timeout"}}
    \cup {[kind |-> k, hdr |-> h, body |-> NoBody] :
              k \in {"http_error", "bad_json"}, h \in {None, <<"tA">>}}
    \cup {[kind |-> "http_error", hdr |-> None,
           body |-> [NoBody EXCEPT !.has_error = TRUE, !.message = <<"denied">>]]}
    \cup {[kind |-> "json", hdr |-> h, body |-> b] :
              h \in (IF method = "tools/call" THEN HeaderValues ELSE {None, <<"tA">>}),
              b \in Bodies(method)}

NoReply == [kind |-> "none", hdr |-> None, body |-> NoBody]

(***************************************************************************)
(* Values a coroutine hands back: a str, a dict (by its shape) or a list,  *)
(* and the outcome of an awaited call: returned value or raised exception. *)
(***************************************************************************)
Str(s) == [type |-> "str", s |-> s]
Dict(shape) == [type |-> "dict", s |-> <<shape>>]
List(l) == [type |-> "list", s |-> l]

Return(v) == [kind |-> "return", exc |-> "", value |-> v]
Raise(e, msg) == [kind |-> "raise", exc |-> e, value |-> Str(msg)]
NoOutcome == [kind |-> "none", exc |-> "", value |-> Str(<<>>)]

\* what client.post, raise_for_status and response.json raise (none: they pass)
TransportOutcome(reply) ==
    CASE reply.kind = "connect_error" -> Raise("httpx.ConnectError", <<"connection failed">>)
      [] reply.kind = "timeout" -> Raise("httpx.TimeoutException", <<"timed out">>)
      [] reply.kind = "http_error" -> Raise("httpx.HTTPStatusError", <<"non-2xx status">>)
      [] reply.kind = "bad_json" -> Raise("json.JSONDecodeError", <<"invalid JSON">>)
      [] OTHER -> NoOutcome

TransportErrors ==
    {"httpx.ConnectError", "httpx.TimeoutException", "httpx.HTTPStatusError",
     "json.JSONDecodeError"}


(***************************************************************************)
(* MCPClient (app/mcp_client.py).                                          *)
(***************************************************************************)
\* mutant: the id is returned before the increment
next_id_post(rid) == [request_id |-> rid + 1, ret |-> rid]

\* mutant: the id is computed from a value of request_id read before the
\* increment of the operation started just before
next_id_stale(rid) == [request_id |-> rid + 1, ret |-> IF rid > 0 THEN rid ELSE 1]

\* _next_id: the new value of request_id and the id returned
next_id(rid) == [request_id |-> rid + 1, ret |-> rid + 1]

\* mutant: the first captured token is kept
Capture_first(old, reply) ==
    IF Truthy(reply.hdr) /\ old = None THEN reply.hdr ELSE old

\* mutant: the captured tokens are accumulated
Capture_append(old, reply) ==
    IF Truthy(reply.hdr) THEN (IF old = None THEN reply.hdr ELSE old \o reply.hdr) ELSE old

\* call_tool lines 139-143: last_mcp_token after a reply that passed
\* raise_for_status and response.json
Capture(old, reply) == IF Truthy(reply.hdr) THEN reply.hdr ELSE old

\* mutant: the "error" member is checked before the header is captured
CallToolToken_after_error_check(old, reply) ==
    IF TransportOutcome(reply).kind = "raise" \/ reply.body.has_error THEN old
    ELSE Capture(old, reply)

\* mutant: the header of a reply that did not parse is captured too
CallToolToken_any_status(old, reply) ==
    IF reply.kind \in {"connect_error", "timeout"} THEN old ELSE Capture(old, reply)

\* mutant: call_tool forgets the token of the calls before it unless it captures one
CallToolToken_reset(old, reply) ==
    IF TransportOutcome(reply).kind = "raise" \/ ~Truthy(reply.hdr) THEN None ELSE reply.hdr

\* last_mcp_token after call_tool resumed on reply
CallToolToken(old, reply) ==
    IF TransportOutcome(reply).kind = "raise" THEN old ELSE Capture(old, reply)

\* error.get("message", "Unknown error")
ErrorMessage(body) == IF body.message = None THEN <<"Unknown error">> ELSE body.message

\* the shapes of the "result" member of a tools/call body
ResultShapes ==
    {"absent", "no_content", "empty_content", "text", "text_first", "no_text",
     "no_text_first"}

\* an item of a content array, by its "text" member (None: it has none)
TextItem == [text |-> <<"120000">>]
OtherItem == [text |-> None]

\* result.get("result", {}).get("content", [])
Content(shape) ==
    CASE shape = "text" -> <<TextItem>>
      [] shape = "text_first" -> <<TextItem, OtherItem>>
      [] shape = "no_text" -> <<OtherItem>>
      [] shape = "no_text_first" -> <<OtherItem, TextItem>>
      [] OTHER -> <<>>

\* result.get("result", {}): the dict, by its shape
RawResult(shape) == Dict(IF shape = "absent" THEN "{}" ELSE shape)

\* call_tool lines 153-158: the value returned for a result
Unwrap(body) ==
    LET content == Content(body.result)
    IN  IF Len(content) > 0
        THEN Str(IF content[1].text = None THEN <<>> ELSE content[1].text)
        ELSE RawResult(body.result)

\* mutant: the "error" member is not looked at
CallToolOutcome_no_error_check(tool_name, reply) ==
    IF TransportOutcome(reply).kind = "raise" THEN TransportOutcome(reply)
    ELSE Return(Unwrap(reply.body))

\* how call_tool(tool_name, ...) ends on reply
CallToolOutcome(tool_name, reply) ==
    IF TransportOutcome(reply).kind = "raise" THEN TransportOutcome(reply)
    ELSE IF reply.body.has_error
         THEN Raise("Exception",
                    <<"Tool '", tool_name, "' failed: ">> \o ErrorMessage(reply.body))
         ELSE Return(Unwrap(reply.body))

\* how list_tools ends on reply
ListToolsOutcome(reply) ==
    IF TransportOutcome(reply).kind = "raise" THEN TransportOutcome(reply)
    ELSE IF reply.body.has_error
         THEN Raise("Exception", <<"MCP tools/list error: ">> \o ErrorMessage(reply.body))
         ELSE Return(List(reply.body.tools))

\* how initialize ends on reply
InitializeOutcome(reply) ==
    IF TransportOutcome(reply).kind = "raise" THEN TransportOutcome(reply)
    ELSE IF reply.body.has_error
         THEN Raise("Exception", <<"MCP initialize error: ">> \o ErrorMessage(reply.body))
         ELSE Return(Dict(reply.body.result))

Outcome(method, tool_name, reply) ==
    CASE method = "tools/call" -> CallToolOutcome(tool_name, reply)
      [] method = "tools/list" -> ListToolsOutcome(reply)
      [] OTHER -> InitializeOutcome(reply)

(***************************************************************************)
(* One client operation is one coroutine:                                  *)
(*   idle -> waiting   the request is built (its id drawn) and posted      *)
(*   waiting -> done   the awaited post ends with a reply and the          *)
(*                     coroutine runs on, without another await, to its    *)
(*                     return or raise                                     *)
(* obs is what the coroutine handed to the code awaiting it.               *)
(***************************************************************************)
IdleCall == [state |-> "idle", method |-> "", tool |-> "", id |-> 0, obs |-> NoOutcome]

NotResumed == [id |-> 0, method |-> "", tool |-> "", reply |-> NoReply, outcome |-> NoOutcome]

Post(i, method, tool_name) ==
    /\ calls[i].state = "idle"
    /\ LET n == next_id(request_id)
       IN  /\ request_id' = n.request_id
           /\ sent' = Append(sent, [id |-> n.ret, method |-> method, name |-> tool_name])
           /\ calls' = [calls EXCEPT ![i] =
                  [IdleCall EXCEPT !.state = "waiting", !.method = method,
                                   !.tool = tool_name, !.id = n.ret]]

\* mutant: an operation that raises gives its id back to the counter
Receive_release(i, reply, obs, log) ==
    /\ calls[i].state = "waiting"
    /\ LET c == calls[i]
       IN  /\ calls' = [calls EXCEPT ![i].state = "done", ![i].obs = obs]
           /\ resumed' = [id |-> c.id, method |-> c.method, tool |-> c.tool,
                          reply |-> reply, outcome |-> Outcome(c.method, c.tool, reply)]
           /\ last_mcp_token' = IF c.method = "tools/call"
                                THEN CallToolToken(last_mcp_token, reply)
                                ELSE last_mcp_token
           /\ history' = IF c.method = "tools/call" /\ log
                         THEN Append(history, [id |-> c.id, parsed |-> reply.kind = "json",
                                               hdr |-> reply.hdr])
                         ELSE history
           /\ request_id' = IF Outcome(c.method, c.tool, reply).kind = "raise"
                            THEN request_id - 1
                            ELSE request_id
    /\ UNCHANGED sent

\* mutant: a request that failed in transport is sent once more
Receive_retry(i, reply, obs, log) ==
    /\ calls[i].state = "waiting"
    /\ LET c == calls[i]
           again == TransportOutcome(reply).kind = "raise"
       IN  /\ calls' = [calls EXCEPT ![i].state = "done", ![i].obs = obs]
           /\ resumed' = [id |-> c.id, method |-> c.method, tool |-> c.tool,
                          reply |-> reply, outcome |-> Outcome(c.method, c.tool, reply)]
           /\ last_mcp_token' = IF c.method = "tools/call"
                                THEN CallToolToken(last_mcp_token, reply)
                                ELSE last_mcp_token
           /\ history' = IF c.method = "tools/call" /\ log
                         THEN Append(history, [id |-> c.id, parsed |-> reply.kind = "json",
                                               hdr |-> reply.hdr])
                         ELSE history
           /\ request_id' = IF again THEN next_id(request_id).request_id ELSE request_id
           /\ sent' = IF again
                      THEN Append(sent, [id |-> next_id(request_id).ret,
                                         method |-> c.method, name |-> c.tool])
                      ELSE sent

\* the client's part of a resumption on reply: the outcome, and for call_tool the
\* capture.  obs is what the awaiting code is handed; log says whether history is
\* kept (it is for the client on its own, not for the chat turn).
Receive(i, reply, obs, log) ==
    /\ calls[i].state = "waiting"
    /\ LET c == calls[i]
       IN  /\ calls' = [calls EXCEPT ![i].state = "done", ![i].obs = obs]
           /\ resumed' = [id |-> c.id, method |-> c.method, tool |-> c.tool,
                          reply |-> reply, outcome |-> Outcome(c.method, c.tool, reply)]
           /\ last_mcp_token' = IF c.method = "tools/call"
                                THEN CallToolToken(last_mcp_token, reply)
                                ELSE last_mcp_token
           /\ history' = IF c.method = "tools/call" /\ log
                         THEN Append(history, [id |-> c.id, parsed |-> reply.kind = "json",
                                               hdr |-> reply.hdr])
                         ELSE history
    /\ UNCHANGED <<request_id, sent>>

(***************************************************************************)
(* TokenContext (app/auth.py).  The x-introspection-token header is given  *)
(* by what each decoding step makes of it: empty (absent or ""), base64    *)
(* (b64decode accepts it), json (json.loads accepts the decoded bytes),    *)
(* object (the decoded JSON value is an object), access_token (the member  *)
(* of the decoded object; None: no such member).                           *)
(***************************************************************************)
NoEnvelope ==
    [empty |-> TRUE, base64 |-> FALSE, json |-> FALSE, object |-> FALSE,
     access_token |-> None]

\* base64 of the JSON object {"access_token": access_token}
Envelope(access_token) ==
    [empty |-> FALSE, base64 |-> TRUE, json |-> TRUE, object |-> TRUE,
     access_token |-> access_token]

Envelopes ==
    {NoEnvelope, [Envelope(None) EXCEPT !.base64 = FALSE, !.json = FALSE],
     Envelope(<<>>), Envelope(<<"tX">>)}

Authorizations == {<<>>, <<"Bearer ", "tP">>, <<"Bearer ">>}

\* header values that do not decode: bad base64, base64 of bytes that are not
\* JSON, base64 of a JSON value that is no object ([1]); and objects without the
\* access_token member or with other tokens
MalformedEnvelopes ==
    {[Envelope(None) EXCEPT !.base64 = FALSE, !.json = FALSE, !.object = FALSE],
     [Envelope(None) EXCEPT !.json = FALSE, !.object = FALSE],
     [Envelope(None) EXCEPT !.object = FALSE],
     Envelope(None)}

TokenStrings == {<<>>, <<"tX">>, <<"tY">>, <<"Bearer ", "tZ">>}

AllEnvelopes ==
    {NoEnvelope} \cup MalformedEnvelopes \cup {Envelope(T) : T \in TokenStrings}

\* what the try block of _extract_exchanged_token raises ("": nothing)
DecodeError(x_introspection_token) ==
    CASE ~x_introspection_token.base64 -> "binascii.Error"
      [] ~x_introspection_token.json -> "json.JSONDecodeError"
      [] ~x_introspection_token.object -> "AttributeError"
      [] OTHER -> ""

\* mutant: the bearer prefix of the access_token is taken off
extract_exchanged_token_stripped(x_introspection_token) ==
    IF x_introspection_token.empty THEN None
    ELSE IF DecodeError(x_introspection_token) # "" THEN None
    ELSE IF Truthy(x_introspection_token.access_token)
         THEN StripBearer(x_introspection_token.access_token)
         ELSE None

\* TokenContext._extract_exchanged_token (except Exception: return None)
extract_exchanged_token(x_introspection_token) ==
    IF x_introspection_token.empty THEN None
    ELSE IF DecodeError(x_introspection_token) # "" THEN None
    ELSE IF Truthy(x_introspection_token.access_token)
         THEN x_introspection_token.access_token
         ELSE None

\* value or ""
OrEmpty(value) == IF value = None THEN <<>> ELSE value

\* [s.strip() for s in self.user_scopes.split() if s.strip()]: a chunk " " is
\* white space, every other chunk a scope
IsScope(chunk) == chunk # " "

\* TokenContext.__init__ (a header that is absent is None)
TokenContext(user_scopes, user_sub, actor_chain, authorization, x_introspection_token) ==
    [user_scopes |-> OrEmpty(user_scopes),
     user_sub |-> OrEmpty(user_sub),
     actor_chain |-> OrEmpty(actor_chain),
     authorization |-> OrEmpty(authorization),
     x_introspection_token |-> x_introspection_token,
     exchanged_token |-> extract_exchanged_token(x_introspection_token),
     scopes_list |-> SelectSeq(OrEmpty(user_scopes), IsScope)]

NoContext == TokenContext(None, None, None, None, NoEnvelope)

\* TokenContext.has_scope
has_scope(ctx, scope) == \E k \in 1 .. Len(ctx.scopes_list) : ctx.scopes_list[k] = scope

\* mutant: include_auth is not looked at
get_headers_always_auth(ctx, include_auth) ==
    IF Truthy(ctx.authorization)
    THEN [k \in {"X-User-Scopes", "X-User-Sub", "X-Actor-Chain", "Authorization"} |->
             CASE k = "X-User-Scopes" -> ctx.user_scopes
               [] k = "X-User-Sub" -> ctx.user_sub
               [] k = "X-Actor-Chain" -> ctx.actor_chain
               [] OTHER -> ctx.authorization]
    ELSE [k \in {"X-User-Scopes", "X-User-Sub", "X-Actor-Chain"} |->
             CASE k = "X-User-Scopes" -> ctx.user_scopes
               [] k = "X-User-Sub" -> ctx.user_sub
               [] OTHER -> ctx.actor_chain]

\* TokenContext.get_headers: the dict, as a function from its keys
get_headers(ctx, include_auth) ==
    LET keys == {"X-User-Scopes", "X-User-Sub", "X-Actor-Chain"} \cup
                (IF include_auth /\ Truthy(ctx.authorization) THEN {"Authorization"} ELSE {})
    IN  [k \in keys |->
            CASE k = "X-User-Scopes" -> ctx.user_scopes
              [] k = "X-User-Sub" -> ctx.user_sub
              [] k = "X-Actor-Chain" -> ctx.actor_chain
              [] OTHER -> ctx.authorization]

\* no dict yet
NoHeaders == [k \in {} |-> <<>>]

(***************************************************************************)
(* MCPToolFactory (app/tools.py).                                          *)
(***************************************************************************)
KnownTools ==
    {"get_employee", "update_employee", "list_departments", "get_salary",
     "update_salary", "get_org_chart", "list_employees",
     "list_employees_with_salaries", "list_employees_by_department"}

\* mutant: a binding for every descriptor
create_langchain_tool_any(tool_name) == <<tool_name>>

\* _create_langchain_tool: the binding's name, None for an unknown tool
create_langchain_tool(tool_name) ==
    IF tool_name \in KnownTools THEN <<tool_name>> ELSE None

\* get_available_tools lines 91-98: the loop over the descriptors
RECURSIVE langchain_tools(_)
langchain_tools(descriptors) ==
    IF descriptors = <<>> THEN <<>>
    ELSE LET tool == create_langchain_tool(Head(descriptors))
         IN  (IF tool # None THEN <<tool[1]>> ELSE <<>>) \o langchain_tools(Tail(descriptors))

\* mutant: a binding only for the tools the caller's scopes cover
get_available_tools_scoped(ctx, mcp_tools) ==
    SelectSeq(langchain_tools(mcp_tools),
              LAMBDA name : has_scope(ctx, IF name = "get_salary" THEN "hr:salary:read"
                                           ELSE "hr:employee:read"))

\* get_available_tools after list_tools returned mcp_tools; ctx is the
\* token_context of the factory
get_available_tools(ctx, mcp_tools) == langchain_tools(mcp_tools)

\* mutant: no try/except around call_tool
async_wrapper_reraise(tool_name, outcome) == outcome

\* async_wrapper of _make_tool_coroutine: what the orchestrator is handed
async_wrapper(tool_name, outcome) ==
    IF outcome.kind = "raise"
    THEN Return(Str(<<"ERROR: ", "Error calling ", tool_name, ": ">> \o outcome.value.s))
    ELSE outcome

(***************************************************************************)
(* The hop recorder of the /chat endpoint (app/main.py lines 176-241).     *)
(***************************************************************************)
\* mutant: the Authorization header is preferred to the exchanged token
PrimaryToken_authorization_first(ctx) ==
    IF Truthy(ctx.authorization) THEN StripBearer(ctx.authorization)
    ELSE ctx.exchanged_token

\* lines 181-190: the exchanged token, else the Authorization header stripped
PrimaryToken(ctx) ==
    IF ~Truthy(ctx.exchanged_token) /\ Truthy(ctx.authorization)
    THEN StripBearer(ctx.authorization)
    ELSE ctx.exchanged_token

TokenInfo(token, hop) == [token |-> token, hop |-> hop]

\* mutant: the MCP token is recorded before the primary token
ExchangedTokens_reversed(ctx, mcp_token) ==
    (IF Truthy(mcp_token) THEN <<[token |-> StripBearer(mcp_token), hop |-> 2]>> ELSE <<>>)
    \o (IF Truthy(ctx.exchanged_token) THEN <<[token |-> ctx.exchanged_token, hop |-> 1]>>
        ELSE <<>>)

\* lines 178-234: exchanged_tokens
ExchangedTokens(ctx, mcp_token) ==
    (IF Truthy(PrimaryToken(ctx)) THEN <<TokenInfo(PrimaryToken(ctx), 1)>> ELSE <<>>)
    \o (IF Truthy(mcp_token) THEN <<TokenInfo(StripBearer(mcp_token), 2)>> ELSE <<>>)

\* ExchangedTokensInfo(tokens=...) if exchanged_tokens else None
NoTokens == [present |-> FALSE, tokens |-> <<>>]

\* mutant: an empty list is wrapped like any other
ExchangedTokensInfo_empty_list(exchanged_tokens) ==
    [present |-> TRUE, tokens |-> exchanged_tokens]

ExchangedTokensInfo(exchanged_tokens) ==
    IF exchanged_tokens # <<>> THEN [present |-> TRUE, tokens |-> exchanged_tokens]
    ELSE NoTokens

NoResult == [status |-> 0, response |-> <<>>, exchanged_token |-> NoTokens]

\* lines 236-241: the endpoint's result once agent.chat returned response.  The
\* tokens are strs, on which no step of lines 176-234 raises: the handler of
\* line 243 (HTTP 500) is not entered from there.
ChatResponse(ctx, mcp_token, response) ==
    [status |-> 200, response |-> response,
     exchanged_token |-> ExchangedTokensInfo(ExchangedTokens(ctx, mcp_token))]

(***************************************************************************)
(* One /chat request (main.chat, HRAgent.chat, create_agent_executor).     *)
(*   start     HRAgent built: a fresh MCPClient                            *)
(*   listing   get_available_tools awaits list_tools                       *)
(*   running   agent_executor.ainvoke: the orchestrator invokes bindings   *)
(*   answered  agent.chat returned its response text                       *)
(*   done      the endpoint returned                                       *)
(***************************************************************************)
LlmOutput == <<"<agent output>">>

\* the callers whose requests one process serves
Callers == {"alice", "bob"}

\* no request received, no MCPClient built
NoRequests == [r \in Callers |-> [pc |-> "none", mcp_client |-> "", ids |-> <<>>,
                                  tokens |-> <<>>]]

NoClients == [c \in {} |-> 0]

\* HRAgent.chat lines 152-155
ErrorResponse(outcome) == <<"I encountered an error: ">> \o outcome.value.s

Init ==
    /\ request_id = 0
    /\ last_mcp_token = None
    /\ sent = <<>>
    /\ calls = [i \in Slots |-> IdleCall]
    /\ history = <<>>
    /\ resumed = NotResumed
    /\ \E authorization \in Authorizations, x_introspection_token \in Envelopes :
          token_context = TokenContext(<<"hr:employee:read", " ", "hr:salary:read">>,
                                       <<"alice">>, None, authorization,
                                       x_introspection_token)
    /\ pc = "start"
    /\ tools = <<>>
    /\ invoked = 0
    /\ chat_result = NoResult
    /\ llm_headers = NoHeaders
    /\ headers = NoHeaders
    /\ requests = NoRequests
    /\ clients = NoClients

\* create_agent_executor up to the await of list_tools: the ChatOpenAI and the
\* MCPToolFactory are built, each with token_context.get_headers()
Discover ==
    /\ pc = "start"
    /\ llm_headers' = get_headers(token_context, TRUE)
    /\ headers' = get_headers(token_context, TRUE)
    /\ Post(1, "tools/list", "")
    /\ pc' = "listing"
    /\ UNCHANGED <<last_mcp_token, history, resumed, token_context, tools, invoked,
                   chat_result>>
    /\ UNCHANGED server_vars

\* list_tools ends: the bindings are built, or the exception reaches HRAgent.chat
Discovered ==
    /\ pc = "listing"
    /\ \E reply \in Replies("tools/list") :
          LET outcome == ListToolsOutcome(reply)
          IN  /\ Receive(1, reply, outcome, FALSE)
              /\ IF outcome.kind = "raise"
                 THEN /\ pc' = "answered"
                      /\ chat_result' = [chat_result EXCEPT
                                             !.response = ErrorResponse(outcome)]
                      /\ UNCHANGED tools
                 ELSE /\ pc' = "running"
                      /\ tools' = get_available_tools(token_context, outcome.value.s)
                      /\ UNCHANGED chat_result
    /\ UNCHANGED <<token_context, invoked>>
    /\ UNCHANGED <<llm_headers, headers>>
    /\ UNCHANGED server_vars

\* the orchestrator invokes one of its bindings
Invoke ==
    /\ pc = "running"
    /\ invoked < MaxCalls
    /\ \E b \in 1 .. Len(tools) : Post(invoked + 2, "tools/call", tools[b])
    /\ invoked' = invoked + 1
    /\ UNCHANGED <<last_mcp_token, history, resumed, token_context, pc, tools,
                   chat_result>>
    /\ UNCHANGED <<llm_headers, headers>>
    /\ UNCHANGED server_vars

\* call_tool ends inside async_wrapper, which hands its result to the orchestrator
ToolResult ==
    /\ pc = "running"
    /\ \E i \in Slots : \E reply \in Replies("tools/call") :
          /\ calls[i].method = "tools/call"
          /\ Receive(i, reply, async_wrapper(calls[i].tool,
                                               CallToolOutcome(calls[i].tool, reply)), FALSE)
    /\ UNCHANGED <<token_context, pc, tools, invoked, chat_result>>
    /\ UNCHANGED <<llm_headers, headers>>
    /\ UNCHANGED server_vars

NoneInFlight == \A i \in Slots : calls[i].state # "waiting"

\* ainvoke returns the orchestrator's output
AgentFinish ==
    /\ pc = "running"
    /\ NoneInFlight
    /\ pc' = "answered"
    /\ chat_result' = [chat_result EXCEPT !.response = LlmOutput]
    /\ UNCHANGED <<request_id, last_mcp_token, sent, calls, history, resumed,
                   token_context, tools, invoked>>
    /\ UNCHANGED <<llm_headers, headers>>
    /\ UNCHANGED server_vars

\* ainvoke raises (the LLM proxy failed): HRAgent.chat answers with the error text
AgentError ==
    /\ pc = "running"
    /\ NoneInFlight
    /\ pc' = "answered"
    /\ chat_result' = [chat_result EXCEPT
                           !.response = ErrorResponse(Raise("Exception", <<"llm call failed">>))]
    /\ UNCHANGED <<request_id, last_mcp_token, sent, calls, history, resumed,
                   token_context, tools, invoked>>
    /\ UNCHANGED <<llm_headers, headers>>
    /\ UNCHANGED server_vars

\* main.chat after agent.chat returned: the hop list and the response
Respond ==
    /\ pc = "answered"
    /\ pc' = "done"
    /\ chat_result' = ChatResponse(token_context, last_mcp_token, chat_result.response)
    /\ UNCHANGED <<request_id, last_mcp_token, sent, calls, history, resumed,
                   token_context, tools, invoked>>
    /\ UNCHANGED <<llm_headers, headers>>
    /\ UNCHANGED server_vars

Next == Discover \/ Discovered \/ Invoke \/ ToolResult \/ AgentFinish \/ AgentError \/ Respond

Spec == Init /\ [][Next]_vars

(***************************************************************************)
(* The client driven by an arbitrary caller: any operations, in any order, *)
(* any number of them in flight.                                           *)
(***************************************************************************)
Methods == {"initialize", "tools/list", "tools/call"}

ClientInit ==
    /\ request_id = 0
    /\ last_mcp_token = None
    /\ sent = <<>>
    /\ calls = [i \in Slots |-> IdleCall]
    /\ history = <<>>
    /\ resumed = NotResumed
    /\ token_context = NoContext
    /\ pc = "client"
    /\ tools = <<>>
    /\ invoked = 0
    /\ chat_result = NoResult
    /\ llm_headers = NoHeaders
    /\ headers = NoHeaders
    /\ requests = NoRequests
    /\ clients = NoClients

ClientStart ==
    /\ request_id < MaxOps
    /\ \E method \in Methods :
          \E tool_name \in (IF method = "tools/call" THEN ToolNames ELSE {""}) :
             Post(request_id + 1, method, tool_name)
    /\ UNCHANGED <<last_mcp_token, history, resumed, token_context, pc, tools,
                   invoked, chat_result>>
    /\ UNCHANGED <<llm_headers, headers>>
    /\ UNCHANGED server_vars

ClientReceive ==
    /\ \E i \in Slots : \E reply \in Replies(calls[i].method) :
          Receive(i, reply, NoOutcome, TRUE)
    /\ UNCHANGED <<token_context, pc, tools, invoked, chat_result>>
    /\ UNCHANGED <<llm_headers, headers>>
    /\ UNCHANGED server_vars

ClientNext == ClientStart \/ ClientReceive

ClientSpec == ClientInit /\ [][ClientNext]_vars

(***************************************************************************)
(* The credential context on its own: get_token_context builds it from the *)
(* headers of a request, then get_headers is called on it.                 *)
(***************************************************************************)
ScopeHeaders == {None, <<"hr:employee:read">>, <<"hr:employee:read", " ", "hr:salary:read">>}

SubHeaders == {None, <<"alice">>}

ActorHeaders == {None, <<"hr-agent">>}

AuthorizationHeaders == {None} \cup Authorizations

ContextInit ==
    /\ request_id = 0
    /\ last_mcp_token = None
    /\ sent = <<>>
    /\ calls = [i \in Slots |-> IdleCall]
    /\ history = <<>>
    /\ resumed = NotResumed
    /\ token_context = NoContext
    /\ pc = "request"
    /\ tools = <<>>
    /\ invoked = 0
    /\ chat_result = NoResult
    /\ llm_headers = NoHeaders
    /\ headers = NoHeaders
    /\ requests = NoRequests
    /\ clients = NoClients

\* get_token_context
Construct ==
    /\ pc = "request"
    /\ \E user_scopes \in ScopeHeaders, user_sub \in SubHeaders,
          actor_chain \in ActorHeaders, authorization \in AuthorizationHeaders,
          x_introspection_token \in AllEnvelopes :
          token_context' = TokenContext(user_scopes, user_sub, actor_chain,
                                        authorization, x_introspection_token)
    /\ pc' = "context"
    /\ UNCHANGED <<request_id, last_mcp_token, sent, calls, history, resumed, tools,
                   invoked, chat_result, llm_headers, headers>>
    /\ UNCHANGED server_vars

\* token_context.get_headers(include_auth)
GetHeaders ==
    /\ pc = "context"
    /\ \E include_auth \in BOOLEAN :
          /\ headers' = get_headers(token_context, include_auth)
          /\ pc' = IF include_auth THEN "headers_auth" ELSE "headers_no_auth"
    /\ UNCHANGED <<request_id, last_mcp_token, sent, calls, history, resumed,
                   token_context, tools, invoked, chat_result, llm_headers>>
    /\ UNCHANGED server_vars

ContextNext == Construct \/ GetHeaders

ContextSpec == ContextInit /\ [][ContextNext]_vars

(***************************************************************************)
(* The chat turn of callers that differ in their scopes only.              *)
(***************************************************************************)
\* the state before anything ran, for the context ctx and the position at
Fresh(ctx, at) ==
    /\ request_id = 0
    /\ last_mcp_token = None
    /\ sent = <<>>
    /\ calls = [i \in Slots |-> IdleCall]
    /\ history = <<>>
    /\ resumed = NotResumed
    /\ token_context = ctx
    /\ pc = at
    /\ tools = <<>>
    /\ invoked = 0
    /\ chat_result = NoResult
    /\ llm_headers = NoHeaders
    /\ headers = NoHeaders
    /\ requests = NoRequests
    /\ clients = NoClients

ScopedContext(user_scopes) ==
    TokenContext(user_scopes, <<"alice">>, None, <<"Bearer ", "tP">>, NoEnvelope)

ScopeInit == \E user_scopes \in ScopeHeaders : Fresh(ScopedContext(user_scopes), "start")

ScopeSpec == ScopeInit /\ [][Next]_vars

(***************************************************************************)
(* The AgentExecutor loop of one turn as create_agent_executor configures  *)
(* it (agent.py lines 113-119: max_iterations, no max_execution_time).     *)
(* An iteration is one plan of the LLM followed by the tool call it asks   *)
(* for through its binding; here the iterations run one call at a time in  *)
(* slot 2, and invoked counts the iterations.  The loop plans while the    *)
(* count is below max_iterations and otherwise returns its stop text as    *)
(* the output.                                                             *)
(***************************************************************************)
max_iterations == 20

StoppedOutput == <<"Agent stopped due to iteration limit or time limit.">>

\* mutant: the cap lets one more iteration through
should_continue_late(iterations) == iterations <= max_iterations

\* the loop condition of the executor
should_continue(iterations) == iterations < max_iterations

LoopInit ==
    Fresh(ScopedContext(<<"hr:employee:read", " ", "hr:salary:read">>), "start")

\* the plan names a binding: the iteration awaits its async_wrapper
LoopInvoke ==
    /\ pc = "running"
    /\ should_continue(invoked)
    /\ \E b \in 1 .. Len(tools) : Post(2, "tools/call", tools[b])
    /\ invoked' = invoked + 1
    /\ UNCHANGED <<last_mcp_token, history, resumed, token_context, pc, tools,
                   chat_result>>
    /\ UNCHANGED <<llm_headers, headers>>
    /\ UNCHANGED server_vars

\* the observation goes to the scratchpad: the iteration is over
LoopObserve ==
    /\ pc = "running"
    /\ calls[2].state = "done"
    /\ calls' = [calls EXCEPT ![2] = IdleCall]
    /\ UNCHANGED <<request_id, last_mcp_token, sent, history, resumed, token_context,
                   pc, tools, invoked, chat_result>>
    /\ UNCHANGED <<llm_headers, headers>>
    /\ UNCHANGED server_vars

\* the plan is the final answer
LoopFinish == should_continue(invoked) /\ calls[2].state = "idle" /\ AgentFinish

\* the plan fails (the LLM proxy failed)
LoopError == should_continue(invoked) /\ calls[2].state = "idle" /\ AgentError

\* the loop condition fails: ainvoke returns the stop text as its output
IterationLimit ==
    /\ pc = "running"
    /\ ~should_continue(invoked)
    /\ calls[2].state = "idle"
    /\ pc' = "answered"
    /\ chat_result' = [chat_result EXCEPT !.response = StoppedOutput]
    /\ UNCHANGED <<request_id, last_mcp_token, sent, calls, history, resumed,
                   token_context, tools, invoked>>
    /\ UNCHANGED <<llm_headers, headers>>
    /\ UNCHANGED server_vars

LoopNext ==
    \/ Discover
    \/ Discovered
    \/ LoopInvoke
    \/ ToolResult
    \/ LoopObserve
    \/ LoopFinish
    \/ LoopError
    \/ IterationLimit
    \/ Respond

\* every awaited post ends (timeout=10.0, timeout=30.0) and a coroutine that can
\* run is run
LoopSpec == LoopInit /\ [][LoopNext]_vars /\ WF_vars(LoopNext)

(***************************************************************************)
(* One process serving the /chat requests of several callers, in any       *)
(* interleaving of their steps.  requests[r] is the request of caller r:   *)
(* where it stands, the MCPClient object its HRAgent holds, the ids of the *)
(* tools/call requests it sent and the hop list it answered with.          *)
(* clients maps the MCPClient objects that exist to their fields.          *)
(***************************************************************************)
\* the token_context get_token_context builds for caller r, whose bearer token
\* is named after the caller
CallerContext(r) ==
    TokenContext(<<"hr:employee:read">>, <<r>>, None, <<"Bearer ", r>>, NoEnvelope)

\* the secondary token the gateway mints for the calls of caller r
McpTokenOf(r) == <<"mcp-token of ", r>>

\* what a tools/call of caller r is answered with
ServerReplies(r) ==
    {[kind |-> k, hdr |-> h, body |-> [NoBody EXCEPT !.result = "text"]] :
        k \in {"json", "timeout"}, h \in {None, McpTokenOf(r)}}

\* MCPClient.__init__
NewClientFields == [request_id |-> 0, last_mcp_token |-> None]

\* mutant: one MCPClient object for the whole process
NewClient_shared(r) == "shared"

\* MCPClient(): the identity of the object built for the request of caller r
NewClient(r) == r

\* main.chat up to HRAgent(token_context): a new agent with a new client
Arrive(r) ==
    /\ requests[r].pc = "none"
    /\ LET c == NewClient(r)
       IN  /\ requests' = [requests EXCEPT ![r].pc = "running", ![r].mcp_client = c]
           /\ clients' = [x \in DOMAIN clients \cup {c} |->
                             IF x = c THEN NewClientFields ELSE clients[x]]
    /\ UNCHANGED turn_vars

\* a binding of the request is invoked: call_tool up to the await of the post
ServerCall(r) ==
    /\ requests[r].pc = "running"
    /\ Len(requests[r].ids) < MaxCalls
    /\ LET c == requests[r].mcp_client
           n == next_id(clients[c].request_id)
       IN  /\ clients' = [clients EXCEPT ![c].request_id = n.request_id]
           /\ requests' = [requests EXCEPT ![r].pc = "waiting",
                                           ![r].ids = Append(@, n.ret)]
    /\ UNCHANGED turn_vars

\* call_tool resumes on the reply: the capture
ServerReceive(r) ==
    /\ requests[r].pc = "waiting"
    /\ \E reply \in ServerReplies(r) :
          LET c == requests[r].mcp_client
          IN  clients' = [clients EXCEPT
                            ![c].last_mcp_token = CallToolToken(@, reply)]
    /\ requests' = [requests EXCEPT ![r].pc = "running"]
    /\ UNCHANGED turn_vars

\* main.chat after agent.chat returned: the hop list of the response
ServerRespond(r) ==
    /\ requests[r].pc = "running"
    /\ requests' = [requests EXCEPT
                       ![r].pc = "done",
                       ![r].tokens = ExchangedTokens(CallerContext(r),
                                         clients[requests[r].mcp_client].last_mcp_token)]
    /\ UNCHANGED clients
    /\ UNCHANGED turn_vars

ServerInit == Fresh(NoContext, "server")

ServerNext ==
    \E r \in Callers : Arrive(r) \/ ServerCall(r) \/ ServerReceive(r) \/ ServerRespond(r)

ServerSpec == ServerInit /\ [][ServerNext]_vars

(***************************************************************************)
(* call_tool on its own, over every shape of result: replies that passed   *)
(* raise_for_status and response.json and carry no "error" member.         *)
(***************************************************************************)
ResultReplies ==
    {[kind |-> "json", hdr |-> h, body |-> [NoBody EXCEPT !.result = r]] :
        h \in {None, <<"tA">>}, r \in ResultShapes}

ResultStart ==
    /\ request_id < MaxOps
    /\ \E tool_name \in ToolNames : Post(request_id + 1, "tools/call", tool_name)
    /\ UNCHANGED <<last_mcp_token, history, resumed, token_context, pc, tools,
                   invoked, chat_result>>
    /\ UNCHANGED <<llm_headers, headers>>
    /\ UNCHANGED server_vars

ResultReceive ==
    /\ \E i \in Slots : \E reply \in ResultReplies :
          Receive(i, reply, Outcome(calls[i].method, calls[i].tool, reply), FALSE)
    /\ UNCHANGED <<token_context, pc, tools, invoked, chat_result>>
    /\ UNCHANGED <<llm_headers, headers>>
    /\ UNCHANGED server_vars

ResultNext == ResultStart \/ ResultReceive

ResultSpec == ClientInit /\ [][ResultNext]_vars

(***************************************************************************)
(* Properties.                                                             *)
(***************************************************************************)
IsPrefix(p, q) == Len(p) <= Len(q) /\ SubSeq(q, 1, Len(p)) = p

IsSuffix(p, q) == Len(p) <= Len(q) /\ SubSeq(q, Len(q) - Len(p) + 1, Len(q)) = p

Mentions(q, chunk) == \E k \in 1 .. Len(q) : q[k] = chunk

Count(method) == Cardinality({k \in 1 .. Len(sent) : sent[k].method = method})

\* the slot of the operation that resumed last
ResumedSlot == CHOOSE i \in Slots : calls[i].id = resumed.id

\* the value a binding hands over for a failed call: text that starts "ERROR: "
IsFailureValue(obs) ==
    /\ obs.kind = "return"
    /\ obs.value.type = "str"
    /\ IsPrefix(<<"ERROR: ">>, obs.value.s)

\* C1: the request ids one client puts into its requests are strictly increasing,
\* pairwise distinct, and the first one is 1, whatever the operations and outcomes.
C1_RequestIdsIncrease ==
    /\ Len(sent) >= 1 => sent[1].id = 1
    /\ \A j, k \in 1 .. Len(sent) : j < k => sent[j].id < sent[k].id

C1_Witness ==
    /\ Len(sent) >= 2
    /\ sent[1].method # sent[2].method
    /\ resumed.outcome.kind = "raise"

\* C2: a tools/call reply that call_tool parsed (2xx, JSON) and that has an "error"
\* member makes call_tool raise, with the tool name and the error's message text in
\* the exception; the binding hands the orchestrator a failure text that carries
\* them, never an empty or successful value.
C2_ErrorEnvelopeRaises ==
    (/\ resumed.method = "tools/call"
     /\ resumed.reply.kind = "json"
     /\ resumed.reply.body.has_error)
    => /\ resumed.outcome.kind = "raise"
       /\ resumed.outcome.exc = "Exception"
       /\ IsPrefix(<<"Tool '", resumed.tool, "' failed: ">>, resumed.outcome.value.s)
       /\ resumed.reply.body.message # None
             => IsSuffix(resumed.reply.body.message, resumed.outcome.value.s)
       /\ IsFailureValue(calls[ResumedSlot].obs)
       /\ IsSuffix(resumed.outcome.value.s, calls[ResumedSlot].obs.value.s)

C2_Witness ==
    /\ resumed.method = "tools/call"
    /\ resumed.reply.kind = "json"
    /\ resumed.reply.body.message = <<"denied">>
    /\ calls[ResumedSlot].state = "done"
    /\ Mentions(calls[ResumedSlot].obs.value.s, "denied")

\* C3: whatever call_tool ends with, the binding returns: a failure of call_tool
\* (transport failure, timeout, malformed JSON, error envelope) comes back as a
\* failure value, never as a raised exception, and after it the orchestrator can
\* still invoke bindings in the same turn.
C3_BindingNeverRaises ==
    /\ \A i \in Slots :
          (calls[i].state = "done" /\ calls[i].method = "tools/call")
          => /\ calls[i].obs.kind = "return"
             /\ (resumed.id = calls[i].id /\ resumed.outcome.kind = "raise")
                   => IsFailureValue(calls[i].obs)
    /\ (/\ pc = "running"
        /\ invoked < MaxCalls
        /\ \E i \in Slots : calls[i].state = "done" /\ IsFailureValue(calls[i].obs))
       => ENABLED Invoke

C3_Witness ==
    \E i, j \in Slots :
       /\ calls[i].state = "done" /\ IsFailureValue(calls[i].obs)
       /\ calls[j].state = "done" /\ calls[j].id > calls[i].id
       /\ calls[j].obs = Return(Str(<<"120000">>))
       /\ resumed.id = calls[j].id

\* the primary token of the request: the decoded exchanged token, else the
\* Authorization header without its Bearer prefix
C4_ResolvedPrimary ==
    IF token_context.exchanged_token # None THEN token_context.exchanged_token
    ELSE StripBearer(token_context.authorization)

\* C4: with a primary token resolved and a secondary token captured, the hop list is
\* exactly <<hop 1 = the primary token, hop 2 = the secondary token (without its
\* Bearer prefix)>>; with no secondary token captured, it has no hop 2.
C4_HopOrder ==
    pc = "done"
    => /\ (C4_ResolvedPrimary # <<>> /\ last_mcp_token # None)
             => chat_result.exchanged_token.tokens =
                   << [token |-> C4_ResolvedPrimary, hop |-> 1],
                      [token |-> StripBearer(last_mcp_token), hop |-> 2] >>
       /\ last_mcp_token = None
             => \A k \in 1 .. Len(chat_result.exchanged_token.tokens) :
                   chat_result.exchanged_token.tokens[k].hop # 2

C4_Witness ==
    /\ pc = "done"
    /\ last_mcp_token = <<"Bearer ", "tB">>
    /\ token_context.exchanged_token = None
    /\ Len(chat_result.exchanged_token.tokens) = 2
    /\ chat_result.exchanged_token.tokens[1].token = <<"tP">>
    /\ chat_result.exchanged_token.tokens[2].token = <<"tB">>

\* C5 (as claimed): every hop list the turn produces starts with hop 1, the
\* credential used to reach the bridge; hop 2 never appears without hop 1 before it.
C5_HopOneFirst ==
    (pc = "done" /\ chat_result.exchanged_token.present)
    => /\ chat_result.exchanged_token.tokens[1].hop = 1
       /\ chat_result.exchanged_token.tokens[1].token = C4_ResolvedPrimary

\* the fixed set of known tool names
C6_KnownToolNames ==
    {"get_employee", "update_employee", "list_departments", "get_salary",
     "update_salary", "get_org_chart", "list_employees",
     "list_employees_with_salaries", "list_employees_by_department"}

C6_IsKnown(name) == name \in C6_KnownToolNames

\* C6: get_available_tools calls list_tools once and returns one binding per
\* descriptor with a known name, in order, and none for any other; an unknown name
\* does not make discovery fail.
C6_OneBindingPerKnownDescriptor ==
    /\ pc # "start" => Count("tools/list") = 1
    /\ (calls[1].state = "done" /\ calls[1].obs.kind = "return")
       => /\ tools = SelectSeq(calls[1].obs.value.s, C6_IsKnown)
          /\ pc \in {"running", "answered", "done"}

C6_Witness ==
    /\ calls[1].state = "done"
    /\ calls[1].obs = Return(List(<<"unknown_tool_x", "get_employee">>))
    /\ tools = <<"get_employee">>
    /\ pc = "running"

\* the header of the latest parsed reply in h that carried a non-empty one
RECURSIVE C7_LastCarried(_)
C7_LastCarried(h) ==
    IF h = <<>> THEN None
    ELSE LET e == h[Len(h)]
         IN  IF e.parsed /\ e.hdr # None /\ e.hdr # <<>> THEN e.hdr
             ELSE C7_LastCarried(SubSeq(h, 1, Len(h) - 1))

\* C7: last_mcp_token is one header value: that of the most recent reply call_tool
\* parsed (2xx, JSON) that carried a non-empty one; None when there was none.
\* Earlier values are overwritten.
C7_LastTokenOverwrites ==
    /\ last_mcp_token = C7_LastCarried(history)
    /\ last_mcp_token \in HeaderValues

C7_Witness ==
    /\ Len(history) = 2
    /\ history[1].parsed /\ history[1].hdr = <<"tA">>
    /\ history[2].parsed /\ history[2].hdr = <<"Bearer ", "tB">>
    /\ last_mcp_token = <<"Bearer ", "tB">>

\* C8: with several call_tool in flight and their replies handled in any order,
\* last_mcp_token is at every point unset or one whole header value that some
\* handled reply carried, and after a reply that carried one it is that reply's,
\* whatever the order in which the requests went out.
C8_LastResponderWins ==
    /\ \/ last_mcp_token = None
       \/ \E k \in 1 .. Len(history) : history[k].hdr = last_mcp_token
    /\ (/\ history # <<>>
        /\ history[Len(history)].parsed
        /\ history[Len(history)].hdr \notin {None, <<>>})
       => last_mcp_token = history[Len(history)].hdr

C8_Witness ==
    /\ Len(history) = 2
    /\ history[1].id = 2 /\ history[1].parsed /\ history[1].hdr = <<"Bearer ", "tB">>
    /\ history[2].id = 1 /\ history[2].parsed /\ history[2].hdr = <<"tA">>
    /\ last_mcp_token = <<"tA">>

\* C9 (as claimed): when tools/list fails, no binding is produced, no tools/call is
\* sent, and the caller gets a turn-level failure, not a successful chat result.
C9_DiscoveryFailureFailsTurn ==
    (pc = "done" /\ calls[1].obs.kind = "raise")
    => /\ tools = <<>>
       /\ Count("tools/call") = 0
       /\ chat_result.status # 200

\* the step in which call_tool of coroutine i resumes on a timeout
C10_TimedOut(i) ==
    /\ calls[i].state = "waiting"
    /\ calls[i].method = "tools/call"
    /\ calls'[i].state = "done"
    /\ resumed'.reply.kind = "timeout"

\* C10: a tools/call that times out ends call_tool with a transport error, which
\* the binding hands over as a failure value; the step changes neither the results
\* of the other calls nor last_mcp_token nor the turn's position.
C10_TimeoutIsContained ==
    [][\A i \in Slots :
          C10_TimedOut(i)
          => /\ resumed'.outcome.kind = "raise"
             /\ resumed'.outcome.exc \in TransportErrors
             /\ IsFailureValue(calls'[i].obs)
             /\ last_mcp_token' = last_mcp_token
             /\ \A j \in Slots \ {i} : calls'[j] = calls[j]
             /\ pc' = pc]_vars

C10_Witness ==
    \E i, j \in Slots :
       /\ calls[i].state = "done" /\ calls[i].obs = Return(Str(<<"120000">>))
       /\ calls[j].state = "done" /\ calls[j].id > calls[i].id
       /\ resumed.id = calls[j].id /\ resumed.reply.kind = "timeout"
       /\ IsFailureValue(calls[j].obs)
       /\ last_mcp_token = <<"tA">>

\* the reply call_tool resumed on last was a successful tools/call response
C11_Successful ==
    /\ resumed.method = "tools/call"
    /\ resumed.reply.kind = "json"
    /\ ~resumed.reply.body.has_error

\* C11: for every successful tools/call response call_tool returns the text of the
\* first content item when the first item has one, and the raw result object in
\* every other case: content absent, content empty, first item without text.
C11_UnwrapOrRaw ==
    C11_Successful =>
        LET shape == resumed.reply.body.result
        IN  resumed.outcome =
                IF shape \in {"text", "text_first"}
                THEN Return(Str(TextItem.text))
                ELSE Return(RawResult(shape))

\* the access_token the envelope of the context was made of (None: not an envelope
\* of a JSON object with that key)
C12_T == token_context.x_introspection_token.access_token

C12_WellFormed ==
    /\ pc # "request"
    /\ token_context.x_introspection_token \in {Envelope(T) : T \in TokenStrings}

C12_Malformed ==
    /\ pc # "request"
    /\ token_context.x_introspection_token \in MalformedEnvelopes

\* C12 as stated: the context of the base64 of {"access_token": T} has
\* exchanged_token exactly T for every token string T, and a malformed header
\* value gives None.
C12_EveryTokenExtracted ==
    /\ C12_WellFormed => token_context.exchanged_token = C12_T
    /\ C12_Malformed => token_context.exchanged_token = None

\* C12: the context of the base64 of {"access_token": T} has exchanged_token
\* exactly T for every non-empty token string T and None for the empty one; a
\* malformed header value (bad base64, not JSON, no object, no access_token key)
\* gives None, and the context is constructed in every case.
C12_NonEmptyTokenExtracted ==
    /\ C12_WellFormed =>
          token_context.exchanged_token = (IF C12_T = <<>> THEN None ELSE C12_T)
    /\ C12_Malformed => token_context.exchanged_token = None
    /\ pc = "request" => ENABLED Construct

C12_Witness ==
    /\ C12_WellFormed
    /\ C12_T = <<"Bearer ", "tZ">>
    /\ token_context.exchanged_token = <<"Bearer ", "tZ">>

\* C13: get_headers(include_auth=False) has no Authorization key;
\* get_headers(include_auth=True) has one if and only if the request carried a
\* primary token; besides it both have exactly the keys X-User-Scopes, X-User-Sub
\* and X-Actor-Chain.
C13_HeaderKeys ==
    /\ pc = "headers_no_auth" => "Authorization" \notin DOMAIN headers
    /\ pc = "headers_auth" =>
          ("Authorization" \in DOMAIN headers <=> token_context.authorization # <<>>)
    /\ pc \in {"headers_auth", "headers_no_auth"} =>
          DOMAIN headers \ {"Authorization"} =
              {"X-User-Scopes", "X-User-Sub", "X-Actor-Chain"}

C13_Witness ==
    /\ pc = "headers_no_auth"
    /\ token_context.authorization = <<"Bearer ", "tP">>
    /\ DOMAIN headers = {"X-User-Scopes", "X-User-Sub", "X-Actor-Chain"}

\* the request of the coroutine in slot i was sent to the remote service
C14_Sent(i) ==
    \E k \in 1 .. Len(sent) :
        sent[k] = [id |-> calls[i].id, method |-> calls[i].method, name |-> calls[i].tool]

\* C14: no scope-based filtering: the bindings discovery produced are the ones it
\* produces from the same tools/list response for a context that differs in its
\* scopes only, and every binding invocation sent its tools/call request whatever
\* the caller's scopes.
C14_NoScopeFiltering ==
    /\ (calls[1].state = "done" /\ calls[1].obs.kind = "return") =>
          \A user_scopes \in ScopeHeaders :
              tools = get_available_tools(ScopedContext(user_scopes), calls[1].obs.value.s)
    /\ \A i \in Slots : calls[i].state # "idle" => C14_Sent(i)
    /\ (pc = "running" /\ tools # <<>> /\ invoked < MaxCalls) => ENABLED Invoke

\* a caller without any scope got the binding and its call was sent
C14_Witness ==
    /\ token_context.scopes_list = <<>>
    /\ tools = <<"get_employee">>
    /\ \E i \in Slots : calls[i].method = "tools/call" /\ calls[i].state = "done"
                         /\ calls[i].tool = "get_employee" /\ C14_Sent(i)

\* the requests sent for the coroutine in slot i
C15_RequestsOf(i) == {k \in 1 .. Len(sent) : sent[k].id = calls[i].id}

\* C15: no retry: every list_tools and call_tool that started has exactly one
\* request in the log of requests sent, whatever its outcome; no request was sent
\* beyond those; and the tools/call requests are as many as the binding
\* invocations.
C15_OneRequestPerOperation ==
    /\ \A i \in Slots : calls[i].state # "idle" => Cardinality(C15_RequestsOf(i)) = 1
    /\ Len(sent) = Cardinality({i \in Slots : calls[i].state # "idle"})
    /\ request_id = Len(sent)
    /\ Count("tools/list") = (IF pc = "start" THEN 0 ELSE 1)
    /\ Count("tools/call") = invoked

\* a binding invocation that failed in transport, answered, and no second request
C15_Witness ==
    /\ pc = "done"
    /\ invoked = 1
    /\ calls[2].state = "done"
    /\ IsFailureValue(calls[2].obs)
    /\ resumed.id = calls[2].id
    /\ resumed.outcome.exc \in TransportErrors
    /\ Count("tools/call") = 1

\* the turn ended with a response to the caller
C16_Reported ==
    /\ pc = "done"
    /\ chat_result.status = 200
    /\ chat_result.response # <<>>
    /\ NoneInFlight

C17_Arrived(r) == requests[r].pc # "none"

\* C17: no bridge state crosses requests: the requests of two callers hold
\* different client objects; the client of a request starts with request id
\* counter 0 and no captured token, so the ids a request sends are 1, 2, ...; and
\* the hop list a request answers with holds only its own caller's tokens, in
\* every interleaving of the requests.
C17_RequestScopedState ==
    /\ \A r, q \in Callers :
          (r # q /\ C17_Arrived(r) /\ C17_Arrived(q))
          => requests[r].mcp_client # requests[q].mcp_client
    /\ \A r \in Callers :
          C17_Arrived(r) =>
              LET client == clients[requests[r].mcp_client]
              IN  /\ requests[r].ids = [k \in 1 .. Len(requests[r].ids) |-> k]
                  /\ client.request_id = Len(requests[r].ids)
                  /\ client.last_mcp_token \in {None, McpTokenOf(r)}
                  /\ requests[r].ids = <<>> => client.last_mcp_token = None
    /\ \A r \in Callers : \A k \in 1 .. Len(requests[r].tokens) :
          requests[r].tokens[k] \in {TokenInfo(<<r>>, 1), TokenInfo(McpTokenOf(r), 2)}

\* alice is answered with her own two hops while bob's request, whose client
\* captured his token, is waiting for a reply
C17_Witness ==
    /\ requests["alice"].pc = "done"
    /\ requests["alice"].tokens =
          <<TokenInfo(<<"alice">>, 1), TokenInfo(McpTokenOf("alice"), 2)>>
    /\ requests["bob"].pc = "waiting"
    /\ clients["bob"].last_mcp_token = McpTokenOf("bob")

\* the coroutines whose request is in flight
C18_InFlight == {i \in Slots : calls[i].state = "waiting"}

\* C18: operations started concurrently on one client draw their ids in one step
\* each, before the request is sent: no two requests in flight carry the same id,
\* every request in flight was sent with the id its coroutine holds, and the ids
\* sent are 1, 2, ... up to request_id with none skipped.
C18_AtomicIds ==
    /\ \A i, j \in C18_InFlight : i # j => calls[i].id # calls[j].id
    /\ \A i \in C18_InFlight :
          \E k \in 1 .. Len(sent) : sent[k].id = calls[i].id /\ sent[k].method = calls[i].method
    /\ \A k \in 1 .. Len(sent) : sent[k].id = k
    /\ request_id = Len(sent)

\* two operations in flight at once, with the ids 1 and 2
C18_Witness ==
    /\ Cardinality(C18_InFlight) = 2
    /\ {calls[i].id : i \in C18_InFlight} = {1, 2}
    /\ request_id = 2

\* the hop 1 entries of the response
C19_HopOnes ==
    SelectSeq(chat_result.exchanged_token.tokens, LAMBDA info : info.hop = 1)

\* C19: the token recorded as hop 1 is the decoded exchanged token whenever one
\* was decoded; only when none was decoded it is the Authorization header value
\* without its Bearer prefix; when neither gives a token no hop 1 is recorded.
C19_HopOneSource ==
    pc = "done" =>
        LET decoded == token_context.exchanged_token
            stripped == StripBearer(token_context.authorization)
        IN  /\ decoded # None => C19_HopOnes = <<TokenInfo(decoded, 1)>>
            /\ (decoded = None /\ stripped # <<>>) => C19_HopOnes = <<TokenInfo(stripped, 1)>>
            /\ (decoded = None /\ stripped = <<>>) => C19_HopOnes = <<>>

\* both an exchanged token and an Authorization header: hop 1 is the exchanged one
C19_Witness ==
    /\ pc = "done"
    /\ token_context.exchanged_token = <<"tX">>
    /\ token_context.authorization = <<"Bearer ", "tP">>
    /\ C19_HopOnes = <<TokenInfo(<<"tX">>, 1)>>

\* the turn got its output from the LLM proxy: requests with llm_headers were sent
C20_LlmCalled ==
    /\ pc \in {"answered", "done"}
    /\ chat_result.response = LlmOutput

\* C20 (as claimed): the requests to the LLM proxy carry the propagation headers
\* built with include_auth=False, so none of them has the caller's Authorization
\* header; the headers of the requests to the remote tool service have it when the
\* caller sent one.
C20_NoAuthorizationToLlm ==
    C20_LlmCalled
    => /\ llm_headers = get_headers(token_context, FALSE)
       /\ "Authorization" \notin DOMAIN llm_headers
       /\ headers = get_headers(token_context, TRUE)

\* the operations that have sent their request
C21_Started == {i \in Slots : calls[i].state # "idle"}

\* C21: request_id is the number of initialize, list_tools and call_tool
\* operations that have sent a request, per method as many as the requests logged;
\* an operation that raised (transport error, timeout, error envelope) keeps its
\* id: the id stays counted, is held by that operation alone, and was sent once.
C21_IdsConsumed ==
    /\ request_id = Cardinality(C21_Started)
    /\ \A method \in Methods :
          Count(method) = Cardinality({i \in C21_Started : calls[i].method = method})
    /\ resumed.outcome.kind = "raise"
          => /\ resumed.id \in 1 .. request_id
             /\ Cardinality({i \in Slots : calls[i].id = resumed.id}) = 1
             /\ Cardinality({k \in 1 .. Len(sent) : sent[k].id = resumed.id}) = 1

\* the operation with id 1 failed on an error envelope, the next one got id 2
C21_Witness ==
    /\ resumed.id = 1
    /\ resumed.reply.kind = "json"
    /\ resumed.reply.body.has_error
    /\ resumed.outcome.kind = "raise"
    /\ request_id = 2
    /\ \E i \in Slots : calls[i].state = "waiting" /\ calls[i].id = 2

\* call_tool resumed last on a parsed reply (2xx, JSON) that carries both a
\* non-empty X-MCP-Token header and an "error" member
C22_TokenAndError ==
    /\ resumed.method = "tools/call"
    /\ resumed.reply.kind = "json"
    /\ Truthy(resumed.reply.hdr)
    /\ resumed.reply.body.has_error

\* C22: the capture precedes the error check: on a parsed tools/call reply with
\* both the token header and an "error" member, call_tool raises and
\* last_mcp_token is that reply's header; a finished turn whose only tool call
\* ended so reports hop 2 with that token.
C22_CaptureBeforeErrorCheck ==
    C22_TokenAndError
    => /\ resumed.outcome.kind = "raise"
       /\ resumed.outcome.exc = "Exception"
       /\ last_mcp_token = resumed.reply.hdr
       /\ (pc = "done" /\ invoked = 1)
             => \E k \in 1 .. Len(chat_result.exchanged_token.tokens) :
                   chat_result.exchanged_token.tokens[k] =
                       TokenInfo(StripBearer(resumed.reply.hdr), 2)

C22_Witness ==
    /\ C22_TokenAndError
    /\ pc = "done"
    /\ invoked = 1
    /\ IsFailureValue(calls[2].obs)
    /\ chat_result.exchanged_token.present
    /\ chat_result.exchanged_token.tokens[Len(chat_result.exchanged_token.tokens)] =
          TokenInfo(<<"tB">>, 2)

\* the step is the resumption of an operation on a reply
C23_Resumes == resumed' # resumed

\* the reply of the step lets call_tool capture: 2xx, JSON, non-empty header
C23_Captures ==
    /\ resumed'.method = "tools/call"
    /\ resumed'.reply.kind = "json"
    /\ Truthy(resumed'.reply.hdr)

\* C23: last_mcp_token changes only in a step in which call_tool resumes on a
\* parsed reply with a non-empty X-MCP-Token header, and then to that header;
\* every other step (a request going out, initialize or list_tools resuming,
\* call_tool resuming on a transport failure or on a reply without the header)
\* leaves it as it was, and once set it is never None again.
C23_TokenFrame ==
    [][/\ (C23_Resumes /\ C23_Captures) => last_mcp_token' = resumed'.reply.hdr
       /\ ~(C23_Resumes /\ C23_Captures) => last_mcp_token' = last_mcp_token
       /\ last_mcp_token # None => last_mcp_token' # None]_vars

\* a token was captured, then a call_tool resumed on a non-2xx reply that carried
\* another header value: the token is still the first one
C23_Witness ==
    /\ Len(history) = 2
    /\ history[1].parsed /\ history[1].hdr = <<"Bearer ", "tB">>
    /\ ~history[2].parsed /\ history[2].hdr = <<"tA">>
    /\ resumed.reply.kind = "http_error"
    /\ last_mcp_token = <<"Bearer ", "tB">>

\* neither the envelope nor the Authorization header gave a primary token
C24_NoPrimary ==
    /\ token_context.exchanged_token = None
    /\ StripBearer(token_context.authorization) = <<>>

\* C24: the hop list of a chat response has at most two entries, with strictly
\* increasing hop indices, however many tool calls the turn made; the response has
\* no hop list (null, never an empty list) exactly when no primary token was
\* resolved and no secondary token was captured.
C24_HopListShape ==
    pc = "done" =>
        LET info == chat_result.exchanged_token
        IN  /\ Len(info.tokens) <= 2
            /\ \A j, k \in 1 .. Len(info.tokens) :
                  j < k => info.tokens[j].hop < info.tokens[k].hop
            /\ info.present => info.tokens # <<>>
            /\ ~info.present <=> (C24_NoPrimary /\ last_mcp_token = None)

\* two tool calls that both returned, a token captured: still two hops
C24_Witness ==
    /\ pc = "done"
    /\ invoked = 2
    /\ calls[2].obs.kind = "return" /\ ~IsFailureValue(calls[2].obs)
    /\ calls[3].obs.kind = "return" /\ ~IsFailureValue(calls[3].obs)
    /\ last_mcp_token = <<"tA">>
    /\ chat_result.exchanged_token.present
    /\ Len(chat_result.exchanged_token.tokens) = 2
====
